---- MODULE Spec2Model ----
(***************************************************************************)
(* Salience matrix of a graph (py-network-salience): salience.py is the    *)
(* weighted variant, salience_unw.py the unweighted one.  salience(G)      *)
(* superposes the shortest-path trees _SPT(G, r) of all reference nodes r  *)
(* and divides by the node count.                                          *)
(*                                                                         *)
(* A graph is a record: N nodes, already numbered 0..N-1 in G.nodes()      *)
(* order (what convert_node_labels_to_integers produces), edges = the      *)
(* enumeration G.edges() as a sequence of pairs <<i, j>> with i < j, w =   *)
(* the weight attribute of each edge, and the two class flags networkx     *)
(* graphs carry (directed, multigraph).  The order of edges fixes every    *)
(* adjacency order of the relabelled copy, hence every tie-break of the    *)
(* shortest-path search.                                                   *)
(*                                                                         *)
(* Weights are 0, 1 or 2: 1/w is then exact in floating point, and the     *)
(* proximity 1./w is kept in halves (w = 1 -> 2 halves, w = 2 -> 1 half).  *)
(* Weights are Python numbers, so 1./0 raises ZeroDivisionError.  Negative *)
(* weights are outside the contract and are not drawn.                     *)
(***************************************************************************)
EXTENDS Integers, Sequences, FiniteSets, TLC

VARIABLES G, weighted, pc, N, S, processed, trees, result, divisor, err, spCalls

vars == <<G, weighted, pc, N, S, processed, trees, result, divisor, err, spCalls>>

MaxN == 3
MaxEdges == 3

Weights == {0, 1, 2}

Min(a, b) == IF a < b THEN a ELSE b

Nodes(n) == 0..(n - 1)

Pairs(n) == {e \in Nodes(n) \X Nodes(n) : e[1] < e[2]}

\* Enumerations of up to MaxEdges distinct edges over n nodes.
EdgeSeqs(n) ==
    UNION {{es \in [1..k -> Pairs(n)] : \A a, b \in 1..k : a # b => es[a] # es[b]} :
             k \in 0..Min(MaxEdges, Cardinality(Pairs(n)))}

HasEdge(g, i, j) == \E k \in 1..Len(g.edges) : g.edges[k] = <<i, j>> \/ g.edges[k] = <<j, i>>

WeightOf(g, i, j) ==
    g.w[CHOOSE k \in 1..Len(g.edges) : g.edges[k] = <<i, j>> \/ g.edges[k] = <<j, i>>]

\* Gn[v]: the neighbours of v in the order the relabelled copy stores them.
Adj(g, v) ==
    LET inc == SelectSeq(g.edges, LAMBDA e : e[1] = v \/ e[2] = v)
    IN  [k \in 1..Len(inc) |-> IF inc[k][1] = v THEN inc[k][2] ELSE inc[k][1]]

Zeros(n) == [i \in Nodes(n) |-> [j \in Nodes(n) |-> 0]]

MatAdd_Overwrite(A, B) == B

MatAdd(A, B) == [i \in DOMAIN A |-> [j \in DOMAIN A[i] |-> A[i][j] + B[i][j]]]

Put(f, k, v) == [x \in (DOMAIN f) \cup {k} |-> IF x = k THEN v ELSE f[x]]

(***************************************************************************)
(* nx.shortest_path(Gn, source=r): breadth-first search, level by level;   *)
(* the first node of the level that reaches w fixes w's path.              *)
(***************************************************************************)
\* for w in Gn[v]: if w not in paths: paths[w] = paths[v] + [w]; nextlevel[w] = 1
RECURSIVE ScanAdj(_, _, _, _)
ScanAdj(v, a, lv, k) ==
    IF k > Len(a) THEN lv
    ELSE IF a[k] \in DOMAIN lv.paths THEN ScanAdj(v, a, lv, k + 1)
    ELSE ScanAdj(v, a, [paths     |-> Put(lv.paths, a[k], Append(lv.paths[v], a[k])),
                        nextlevel |-> Append(lv.nextlevel, a[k])], k + 1)

\* for v in thislevel: ...
RECURSIVE ScanLevel(_, _, _, _)
ScanLevel(g, thislevel, lv, vi) ==
    IF vi > Len(thislevel) THEN lv
    ELSE ScanLevel(g, thislevel, ScanAdj(thislevel[vi], Adj(g, thislevel[vi]), lv, 1), vi + 1)

RECURSIVE BFSLevels(_, _, _)
BFSLevels(g, paths, thislevel) ==
    IF thislevel = <<>> THEN paths
    ELSE LET lv == ScanLevel(g, thislevel, [paths |-> paths, nextlevel |-> << >>], 1)
         IN  BFSLevels(g, lv.paths, lv.nextlevel)

ShortestPathsBFS(g, source) == BFSLevels(g, [x \in {source} |-> <<source>>], <<source>>)

(***************************************************************************)
(* nx.shortest_path(Gn, source=r, weight='proximity'): Dijkstra with a     *)
(* heap of (distance, push counter, node); a node's path is replaced       *)
(* whenever a strictly shorter distance to it is seen.                     *)
(***************************************************************************)
ProximityRaises_Never(w) == FALSE

ProximityRaises(w) == w = 0

Proximity(w) == IF w = 1 THEN 2 ELSE 1

HeapMin(fringe) ==
    CHOOSE t \in fringe :
        \A u \in fringe : t[1] < u[1] \/ (t[1] = u[1] /\ t[2] <= u[2])

\* for u, e in Gn[v].items(): ...   (a = Gn[v] in its order, k the position)
RECURSIVE Relax(_, _, _, _, _, _)
Relax(g, v, a, dist, st, k) ==
    IF k > Len(a) THEN st
    ELSE LET u == a[k]
             vu_dist == dist[v] + Proximity(WeightOf(g, v, u))
         IN  IF u \in DOMAIN dist THEN Relax(g, v, a, dist, st, k + 1)
             ELSE IF u \notin DOMAIN st.seen \/ vu_dist < st.seen[u]
                  THEN Relax(g, v, a, dist,
                             [seen   |-> Put(st.seen, u, vu_dist),
                              fringe |-> st.fringe \cup {<<vu_dist, st.c, u>>},
                              c      |-> st.c + 1,
                              paths  |-> Put(st.paths, u, Append(st.paths[v], u))],
                             k + 1)
                  ELSE Relax(g, v, a, dist, st, k + 1)

RECURSIVE DijkstraLoop(_, _, _)
DijkstraLoop(g, dist, st) ==
    IF st.fringe = {} THEN st.paths
    ELSE LET top  == HeapMin(st.fringe)
             rest == [st EXCEPT !.fringe = st.fringe \ {top}]
             v    == top[3]
         IN  IF v \in DOMAIN dist THEN DijkstraLoop(g, dist, rest)
             ELSE LET dist2 == Put(dist, v, top[1])
                  IN  DijkstraLoop(g, dist2, Relax(g, v, Adj(g, v), dist2, rest, 1))

ShortestPathsDijkstra(g, source) ==
    DijkstraLoop(g, << >>,
                 [seen   |-> [x \in {source} |-> 0],
                  fringe |-> {<<0, 0, source>>},
                  c      |-> 1,
                  paths  |-> [x \in {source} |-> <<source>>]])

(***************************************************************************)
(* _SPT: the decorators, the proximity loop, the paths and the fill loop.  *)
(***************************************************************************)
NotImplementedFor_DirectedOnly(g) == g.directed

\* @not_implemented_for('directed') @not_implemented_for('multigraph')
NotImplementedFor(g) == g.directed \/ g.multigraph

\* The (path[i], path[i+1]) of "for i in range(len(path)-1)", over all paths.
PathSteps(paths) ==
    UNION {{<<paths[t][k], paths[t][k + 1]>> : k \in 1..(Len(paths[t]) - 1)} : t \in DOMAIN paths}

\* Variants of the fill loop: T[path[0]][path[i+1]] = 1; T[..][..] += 1;
\* T[path[i-1]][path[i]] = 1 for i in range(len(path)); both directions set.
FillT_FromRef(n, paths) ==
    LET marks == UNION {{<<paths[t][1], paths[t][k + 1]>> : k \in 1..(Len(paths[t]) - 1)} :
                          t \in DOMAIN paths}
    IN  [i \in Nodes(n) |-> [j \in Nodes(n) |-> IF <<i, j>> \in marks THEN 1 ELSE 0]]

FillT_Count(n, paths) ==
    [i \in Nodes(n) |-> [j \in Nodes(n) |->
        Cardinality({tk \in (DOMAIN paths) \X (1..n) :
                       /\ tk[2] < Len(paths[tk[1]])
                       /\ paths[tk[1]][tk[2]] = i
                       /\ paths[tk[1]][tk[2] + 1] = j})]]

FillT_Wrap(n, paths) ==
    LET marks == PathSteps(paths) \cup
                 {<<paths[t][Len(paths[t])], paths[t][1]>> : t \in DOMAIN paths}
    IN  [i \in Nodes(n) |-> [j \in Nodes(n) |-> IF <<i, j>> \in marks THEN 1 ELSE 0]]

FillT_Symmetric(n, paths) ==
    LET marks == PathSteps(paths)
    IN  [i \in Nodes(n) |-> [j \in Nodes(n) |->
            IF <<i, j>> \in marks \/ <<j, i>> \in marks THEN 1 ELSE 0]]

\* T = np.zeros((N,N)); T[path[i]][path[i+1]] = 1 for every step of every path.
FillT(n, paths) ==
    LET marks == PathSteps(paths)
    IN  [i \in Nodes(n) |-> [j \in Nodes(n) |-> IF <<i, j>> \in marks THEN 1 ELSE 0]]

SPTRaises(g, wgt) ==
    IF NotImplementedFor(g) THEN "NetworkXNotImplemented"
    ELSE IF wgt /\ \E k \in 1..Len(g.w) : ProximityRaises(g.w[k]) THEN "ZeroDivisionError"
    ELSE "none"

SPTPaths(g, ref, wgt) ==
    IF wgt THEN ShortestPathsDijkstra(g, ref) ELSE ShortestPathsBFS(g, ref)

SPT(g, ref, wgt) == FillT(g.N, SPTPaths(g, ref, wgt))

(***************************************************************************)
(* salience                                                                *)
(***************************************************************************)
DivideRaises_Scalar(A, n) == n = 0

\* numpy divides element by element and raises nothing.
DivideRaises(A, n) == FALSE

Divide(A, n) == [i \in DOMAIN A |-> [j \in DOMAIN A[i] |-> [num |-> A[i][j], den |-> n]]]

Init ==
    /\ weighted \in BOOLEAN
    /\ \E n \in 0..MaxN : \E es \in EdgeSeqs(n) :
         \E ws \in (IF weighted THEN [1..Len(es) -> Weights] ELSE {[k \in 1..Len(es) |-> 1]}) :
           \E d \in BOOLEAN, m \in BOOLEAN :
             G = [N |-> n, edges |-> es, w |-> ws, directed |-> d, multigraph |-> m]
    /\ pc = "start"
    /\ N = 0
    /\ S = << >>
    /\ processed = {}
    /\ trees = << >>
    /\ result = << >>
    /\ divisor = -1
    /\ err = "none"
    /\ spCalls = 0

\* N = G.order(); S = np.zeros((N,N)); Gn = nx.convert_node_labels_to_integers(G)
Begin ==
    /\ pc = "start"
    /\ N' = G.N
    /\ S' = Zeros(G.N)
    /\ pc' = "loop"
    /\ UNCHANGED <<G, weighted, processed, trees, result, divisor, err, spCalls>>

\* One iteration of "for n in Gn.nodes(): S = S + _SPT(G, n)" in which _SPT
\* returns.  Gn.nodes() enumerates 0, 1, ..., N-1; the order is left open here,
\* so that every enumeration of the reference nodes is a behaviour.  trees
\* records the matrix each call returned.
Step ==
    /\ pc = "loop"
    /\ \E n \in Nodes(N) \ processed :
         /\ SPTRaises(G, weighted) = "none"
         /\ trees' = Put(trees, n, SPT(G, n, weighted))
         /\ S' = MatAdd(S, trees'[n])
         /\ processed' = processed \cup {n}
         /\ spCalls' = spCalls + 1
    /\ UNCHANGED <<G, weighted, pc, N, result, divisor, err>>

\* One iteration in which _SPT raises: the exception leaves salience.
StepRaises ==
    /\ pc = "loop"
    /\ \E n \in Nodes(N) \ processed :
         /\ SPTRaises(G, weighted) # "none"
         /\ err' = SPTRaises(G, weighted)
         /\ pc' = "error"
    /\ UNCHANGED <<G, weighted, N, S, processed, trees, result, divisor, spCalls>>

\* S = 1.*S/N; return S
Return ==
    /\ pc = "loop"
    /\ processed = Nodes(N)
    /\ divisor' = N
    /\ IF DivideRaises(S, N)
       THEN /\ err' = "ZeroDivisionError"
            /\ pc' = "error"
            /\ UNCHANGED result
       ELSE /\ result' = Divide(S, N)
            /\ pc' = "done"
            /\ UNCHANGED err
    /\ UNCHANGED <<G, weighted, N, S, processed, trees, spCalls>>

Next == Begin \/ Step \/ StepRaises \/ Return

Spec == Init /\ [][Next]_vars

(***************************************************************************)
(* Reference notions the properties are stated with.                       *)
(***************************************************************************)
\* The input is a simple undirected graph (nx.Graph).
Simple == ~G.directed /\ ~G.multigraph

Allocated == pc \in {"loop", "done"} \/ (pc = "error" /\ S # << >>)

HasZeroWeight == \E k \in 1..Len(G.w) : G.w[k] = 0

RECURSIVE ReachFrom(_, _)
ReachFrom(g, X) ==
    LET Y == X \cup {v \in Nodes(g.N) : \E u \in X : HasEdge(g, u, v)}
    IN  IF Y = X THEN X ELSE ReachFrom(g, Y)

Reachable(g, ref) == ReachFrom(g, {ref})

Connected(g) == g.N >= 1 /\ Reachable(g, 0) = Nodes(g.N)

\* The unordered pairs {i, j} (i <= j) with a nonzero entry in A.
MarkedPairs(A) ==
    {e \in (DOMAIN A) \X (DOMAIN A) : e[1] <= e[2] /\ (A[e[1]][e[2]] # 0 \/ A[e[2]][e[1]] # 0)}

\* The tree of reference node ref uses the undirected edge {i, j}.
UsesEdge(paths, i, j) ==
    \E t \in DOMAIN paths : \E k \in 1..(Len(paths[t]) - 1) :
        {paths[t][k], paths[t][k + 1]} = {i, j}

UseMatrix(n, paths) ==
    [i \in Nodes(n) |-> [j \in Nodes(n) |-> IF UsesEdge(paths, i, j) THEN 1 ELSE 0]]

\* How many of the reference nodes in X have a tree that uses the edge {i, j}.
RECURSIVE UseCounts(_, _, _)
UseCounts(g, wgt, X) ==
    IF X = {} THEN [i \in Nodes(g.N) |-> [j \in Nodes(g.N) |-> 0]]
    ELSE LET ref  == CHOOSE x \in X : TRUE
             rest == UseCounts(g, wgt, X \ {ref})
             use  == UseMatrix(g.N, SPTPaths(g, ref, wgt))
         IN  [i \in Nodes(g.N) |-> [j \in Nodes(g.N) |-> rest[i][j] + use[i][j]]]

\* The stored trees of the reference nodes in X, summed in ascending order.
RECURSIVE SumTrees(_, _, _)
SumTrees(n, tr, X) ==
    IF X = {} THEN [i \in Nodes(n) |-> [j \in Nodes(n) |-> 0]]
    ELSE LET last == CHOOSE x \in X : \A y \in X : y <= x
             rest == SumTrees(n, tr, X \ {last})
         IN  [i \in Nodes(n) |-> [j \in Nodes(n) |-> rest[i][j] + tr[last][i][j]]]

FracEq(a, b) == a.num * b.den = b.num * a.den

IsZeroMatrix(A, n) ==
    /\ DOMAIN A = Nodes(n)
    /\ \A i \in Nodes(n) : DOMAIN A[i] = Nodes(n) /\ \A j \in Nodes(n) : A[i][j].num = 0

(***************************************************************************)
(* C1: the returned matrix is symmetric, S[i][j] = S[j][i] for all i, j.   *)
(* The fill loop sets only T[path[i]][path[i+1]], so this fails.           *)
(***************************************************************************)
C1_Symmetric ==
    pc = "done" => \A i, j \in Nodes(N) : FracEq(result[i][j], result[j][i])

(***************************************************************************)
(* C2: with N >= 1, S[i][j] is the number of reference nodes whose tree    *)
(* contains the undirected edge {i, j}, divided by N.  Fails: an entry     *)
(* counts only the trees that walk the edge from i to j.                   *)
(***************************************************************************)
C2_EdgeFraction ==
    (pc = "done" /\ N >= 1) =>
        LET cnt == UseCounts(G, weighted, Nodes(N))
        IN  \A i, j \in Nodes(N) :
                FracEq(result[i][j], [num |-> cnt[i][j], den |-> N])

(***************************************************************************)
(* C3: an entry whose pair is not an edge of G (the diagonal included) is  *)
(* zero in every tree, in the accumulator at every step, and in the result.*)
(***************************************************************************)
C3_ZeroOnNonEdges ==
    \A i, j \in Nodes(N) :
        ~HasEdge(G, i, j) =>
            /\ (pc = "done" => \A ref \in Nodes(N) : trees[ref][i][j] = 0)
            /\ (Allocated => S[i][j] = 0)
            /\ (pc = "done" => result[i][j].num = 0)

C3_Witness ==
    /\ pc = "done"
    /\ \E i, j \in Nodes(N) : i # j /\ ~HasEdge(G, i, j)
    /\ \E i, j \in Nodes(N) : result[i][j].num > 0

(***************************************************************************)
(* C4: with N >= 1 every entry of the result lies in [0,1]; every tree     *)
(* adds 0 or 1 to an entry, so after k trees an accumulator entry is in    *)
(* 0..k, and in 0..N before the division by N.                             *)
(***************************************************************************)
C4_Range ==
    /\ Allocated =>
         \A i, j \in Nodes(N) : S[i][j] \in 0..Cardinality(processed) /\ S[i][j] <= N
    /\ (pc = "done" /\ N >= 1) =>
         \A i, j \in Nodes(N) :
             /\ result[i][j].den = N
             /\ 0 <= result[i][j].num
             /\ result[i][j].num <= result[i][j].den

C4_Witness ==
    /\ pc = "done"
    /\ N = 3
    /\ \E i, j \in Nodes(N) : result[i][j].num = N - 1

(***************************************************************************)
(* C5: weighted variant, simple graph with a zero-weight edge: the call    *)
(* fails in the proximity loop of the first _SPT call, before any          *)
(* shortest path is computed and with the accumulator still zero; nothing  *)
(* is returned.                                                            *)
(***************************************************************************)
C5_ZeroWeightFails ==
    (weighted /\ Simple /\ HasZeroWeight) =>
        /\ pc # "done"
        /\ result = << >>
        /\ spCalls = 0
        /\ processed = {}
        /\ (Allocated => S = Zeros(N))
        /\ (pc = "loop" => ENABLED StepRaises /\ ~ENABLED Step /\ ~ENABLED Return)
        /\ (pc = "error" => err = "ZeroDivisionError")

C5_Witness ==
    /\ pc = "error"
    /\ err = "ZeroDivisionError"
    /\ \E k \in 1..Len(G.w) : G.w[k] # 0

(***************************************************************************)
(* C6 as stated: a directed graph or multigraph of any node count fails    *)
(* with the unsupported-shape error before the accumulator is allocated.   *)
(***************************************************************************)
C6_RejectedBeforeAnyWork ==
    ~Simple =>
        /\ pc \in {"start", "error"}
        /\ (pc = "error" => err = "NetworkXNotImplemented" /\ S = << >>)

(***************************************************************************)
(* C6 amended: a directed graph or multigraph with N >= 1 fails with the   *)
(* unsupported-shape error in the first call of _SPT: after the            *)
(* accumulator is allocated and the nodes are relabelled, before any       *)
(* shortest path is computed or any tree added; nothing is returned.  With *)
(* N = 0 _SPT is never called: no error, the empty matrix is returned.     *)
(***************************************************************************)
C6_RejectedAtFirstTree ==
    ~Simple =>
        /\ spCalls = 0
        /\ processed = {}
        /\ trees = << >>
        /\ (Allocated => S = Zeros(N))
        /\ (G.N >= 1 => pc # "done" /\ result = << >>)
        /\ ((pc = "loop" /\ N >= 1) =>
               ENABLED StepRaises /\ ~ENABLED Step /\ ~ENABLED Return)
        /\ (pc = "error" =>
               err = "NetworkXNotImplemented" /\ N >= 1 /\ S = Zeros(N) /\ S # << >>)
        /\ (G.N = 0 => pc # "error" /\ err = "none")
        /\ (pc = "done" => N = 0 /\ result = << >>)

C6_Witness ==
    /\ pc = "error"
    /\ err = "NetworkXNotImplemented"
    /\ G.multigraph
    /\ N >= 2
    /\ S = Zeros(N)

(***************************************************************************)
(* C7 as stated: with N <= 1 the result is the N-by-N zero matrix and the  *)
(* division is never executed with N = 0.                                  *)
(***************************************************************************)
C7_GuardedDivision ==
    (pc = "done" /\ N <= 1) => IsZeroMatrix(result, N) /\ divisor # 0

(***************************************************************************)
(* C7 amended: with N <= 1 the call raises nothing (N = 1: on a simple     *)
(* graph) and returns the N-by-N zero matrix; the division by N is         *)
(* executed unguarded, with N = 0 on a matrix without entries.             *)
(***************************************************************************)
C7_SmallGraphs ==
    /\ (G.N = 0 \/ (G.N = 1 /\ Simple)) => err = "none" /\ pc # "error"
    /\ (pc = "done" /\ N <= 1) => IsZeroMatrix(result, N) /\ divisor = N
    /\ (pc = "loop" /\ N = 0) => ENABLED Return

C7_Witness == pc = "done" /\ N = 0 /\ divisor = 0 /\ result = << >>

(***************************************************************************)
(* C8: a tree's entries are 0 or 1; its marked unordered pairs number      *)
(* (nodes reachable from r) - 1, hence at most N - 1 and exactly N - 1 on  *)
(* a connected graph; unreachable nodes have no entry.                     *)
(***************************************************************************)
C8_TreeShape ==
    (pc = "done" /\ N >= 1) => \A ref \in Nodes(N) :
        LET reach  == Reachable(G, ref)
            marked == Cardinality(MarkedPairs(trees[ref]))
        IN  /\ \A i, j \in Nodes(N) : trees[ref][i][j] \in {0, 1}
            /\ marked = Cardinality(reach) - 1
            /\ marked <= N - 1
            /\ (Connected(G) => marked = N - 1)
            /\ \A i, j \in Nodes(N) :
                   (i \notin reach \/ j \notin reach) => trees[ref][i][j] = 0

\* The tree of a node that reaches one other node, another node being out of reach.
C8_Witness ==
    /\ pc = "done"
    /\ N = 3
    /\ \E ref \in Nodes(N) :
         /\ Cardinality(Reachable(G, ref)) = 2
         /\ Cardinality(MarkedPairs(trees[ref])) = 1

(***************************************************************************)
(* C9: whatever the order in which the reference nodes are processed, the  *)
(* accumulator after a set of them is the sum of their trees, each tree    *)
(* being the one of its reference node alone; so is the returned matrix.   *)
(***************************************************************************)
C9_OrderIndependent ==
    /\ DOMAIN trees = processed
    /\ (pc = "loop") => S = SumTrees(N, trees, processed)
    /\ (pc = "done") =>
         /\ processed = Nodes(N)
         /\ \A ref \in Nodes(N) : trees[ref] = SPT(G, ref, weighted)
         /\ S = SumTrees(N, trees, Nodes(N))
         /\ result = Divide(S, N)

\* An order other than 0, 1, 2: the trees of nodes 2 and 0 are in, node 1's is not.
C9_Witness ==
    /\ pc = "loop"
    /\ N = 3
    /\ processed = {0, 2}
    /\ \E i, j \in Nodes(N) : S[i][j] > 1

====
